---- MODULE Spec2Model ----
(***************************************************************************)
(* State-machine model of the 3D-Flipbook core: the layered (CSS) engine,  *)
(* the scene-graph (WebGL) engine and the Flipbook facade that forwards    *)
(* the navigation API to whichever engine it constructed.                  *)
(*                                                                         *)
(* One engine instance is modelled.  The JavaScript event loop is modelled *)
(* by its queues: `timers' holds the pending setTimeout callbacks of the   *)
(* layered engine, `tweens' the pending gsap timelines of the scene-graph  *)
(* engine, `promises' the promises returned by the async API methods that  *)
(* have settled but whose reactions have not run yet (microtasks).  A      *)
(* macrotask (timer, tween completion, DOM event, load event) runs only    *)
(* when no microtask is pending; API calls are synchronous caller code and *)
(* may run at any point.                                                   *)
(*                                                                         *)
(* Spec is the engine up to its disposal, LifeSpec adds destroy() and what *)
(* still runs after it, WalkSpec is a layered engine on which nextPage()   *)
(* is the only operation called.  FacadeSpec starts before the Flipbook   *)
(* constructor and adds configuration resolution and updateConfig();       *)
(* MergeSpec is configuration resolution alone, StartSpec construction and *)
(* loading without navigation.  HookSpec is the React hook useFlipbook     *)
(* with the engines its effect creates, each reduced to what the hook can  *)
(* observe of it.                                                          *)
(* TeardownSpec constructs the engine under every combination of the      *)
(* navigation switches and lets one release throw inside dispose();        *)
(* CallingSpec adds completion handlers that navigate.                     *)
(***************************************************************************)
EXTENDS Integers, Sequences, FiniteSets, TLC

\* ------------------------------------------------------------------ bounds
MaxLen == 4          \* longest media list explored
MaxPromises == 2     \* API promises whose reactions are still pending
MaxIndex == MaxLen + 3       \* largest argument given to goToPage (beyond every total)
MaxDestroy == 2      \* destroy() calls explored
LifeLen == 3         \* longest media list explored together with destroy()
MaxCalls == 5        \* sequential nextPage() calls counted by `walk'
WalkLen == 5         \* longest media list of the sequential walk

\* --------------------------------------------------------------- constants
Null == -1           \* JavaScript null in a spread slot
Empty == -2          \* the empty locator string '', falsy in `x || null'
SwipeThreshold == 50 \* minimum horizontal distance of a swipe
PageWidth == 4       \* rect.width of a page in the click handler

\* defaultConfig.navigation: every input source is wired by default

VARIABLES
  renderMode,      \* "css" | "webgl": the engine the facade constructed
  images,          \* the media list, as a sequence of locator ids
  spreads,         \* CSSEngine.spreads
  currentSpread,   \* CSSEngine.currentSpread
  isFlipping,      \* CSSEngine.isFlipping
  flipDirection,   \* CSSEngine.flipDirection
  flippingPages,   \* number of .flipping-page-container elements in the DOM
  rendered,        \* images shown in .page-left / .page-right
  timers,          \* pending setTimeout callbacks (their direction)
  loadedImages,    \* CSSEngine.loadedImages / textures decoded so far
  failedLoads,     \* items whose load has failed
  phase,           \* "loading" | "ready" | "failed": outcome of Promise.all
  pages,           \* WebGLEngine.pages.length
  currentPage,     \* WebGLEngine.currentPage
  isAnimating,     \* WebGLEngine.isAnimating
  tweens,          \* pending gsap timelines (their direction)
  currentPageMesh, \* per pending timeline: the index in this.pages of the mesh
                   \* its closure holds as currentPageMesh (Null: left the array)
  visible,         \* indices i with this.pages[i].visible
  turned,          \* indices i with this.pages[i].rotation.y = -Math.PI
  uTexture,        \* per page mesh: the media item its uTexture uniform shows
  resolved,        \* the values Promise.all has collected in loadTextures: per
                   \* load, the media item of its texture (Null: not resolved)
  promises,        \* settled API promises whose reaction has not run yet
  emitted,         \* the event callbacks invoked by the last step, in order
  lastOp,          \* the last step taken
  pendingLoads,    \* items whose load has neither succeeded nor failed yet
  fired,           \* how often onLoadComplete / onReady / onError were invoked
  walk,            \* the nextPage() calls made so far, while nothing else was
  destroyCalls,    \* number of dispose() calls made
  mounted,         \* the engine's root node is a child of the container
  listening,       \* the window / container listeners are registered
  looping,         \* WebGLEngine.animationId holds a scheduled frame
  textures,        \* WebGLEngine.textures.length
  released,        \* how often each owned resource was released / detached
  config,          \* Flipbook.config, the facade's resolved configuration
  built,           \* "no" | "yes" | "threw": outcome of the Flipbook constructor
  updates,         \* number of updateConfig() calls made
  hook,            \* useFlipbook: its refs, state, props and the engines it made
  flags,           \* the engine's config.navigation switches and config.responsive
  subs,            \* the event subscriptions the engine holds
  teardown         \* the steps the last dispose() call carried out, in order

vars == <<renderMode, images, spreads, currentSpread, isFlipping, flipDirection,
          flippingPages, rendered, timers, loadedImages, failedLoads, phase,
          pages, currentPage, isAnimating, tweens, currentPageMesh, visible,
          turned, uTexture, resolved, promises, emitted, lastOp,
          pendingLoads, fired, walk, destroyCalls, mounted, listening, looping,
          textures, released, config, built, updates, hook, flags, subs,
          teardown>>

cssVars == <<spreads, currentSpread, isFlipping, flipDirection, flippingPages,
             rendered, timers>>
glVars == <<pages, currentPage, isAnimating, tweens, currentPageMesh, visible,
           turned, uTexture>>
loadVars == <<loadedImages, failedLoads, phase, pendingLoads, fired, resolved>>
lifeVars == <<destroyCalls, mounted, listening, looping, textures, released, subs,
             teardown>>

\* this.config.navigation (with this.config.responsive) as the engine reads it
navigation == flags

\* the switches of defaultConfig
DefaultFlags ==
  [keyboard |-> TRUE, touch |-> TRUE, click |-> TRUE, arrows |-> TRUE,
   pageIndicator |-> TRUE, responsive |-> TRUE]

If(c, S) == IF c THEN S ELSE {}

\* what CSSEngine.bindEvents subscribes to
cssWired(f) ==
  If(f.keyboard, {"window.keydown"}) \cup If(f.click, {"page.click"})
    \cup If(f.arrows, {"button.click"})
    \cup If(f.touch, {"root.touchstart", "root.touchend"})
    \cup If(f.responsive, {"window.resize"})

\* WebGLEngine.bindEvents subscribing each source under its own switch
glWired_Independent(f) ==
  If(f.click, {"container.mousedown", "container.mousemove"})
    \cup If(f.touch, {"container.touchstart", "container.touchmove"})
    \cup If(f.responsive, {"window.resize"})

\* what WebGLEngine.bindEvents subscribes to
glWired(f) ==
  IF ~f.click THEN {}
  ELSE {"container.mousedown", "container.mousemove"}
         \cup If(f.touch, {"container.touchstart", "container.touchmove"})
         \cup If(f.responsive, {"window.resize"})

wired(mode, f) == IF mode = "css" THEN cssWired(f) ELSE glWired(f)
cfgVars == <<renderMode, images, config, built, updates, hook, flags>>

\* ------------------------------------------------------------------ helpers
Op(name, key, x, y) == [op |-> name, key |-> key, x |-> x, y |-> y]

NoInfo == [index |-> -1, total |-> -1, spread |-> -1, totalSpreads |-> -1]
Ev(name, info) == [ev |-> name, info |-> info]

Abs(n) == IF n < 0 THEN -n ELSE n

\* Math.ceil(n / 2) for n >= 0
CeilHalf(n) == (n + 1) \div 2

\* `x || null' on a locator
OrNull(x) == IF x = Empty THEN Null ELSE x

\* ------------------------------------------------------------- pagination
\* createSpreads with the interior loop running to the end of the list
RECURSIVE MiddleSpreads_ToEnd(_, _)
MiddleSpreads_ToEnd(imgs, i) ==
  IF i < Len(imgs)
  THEN << [left |-> OrNull(imgs[i + 1]),
           right |-> IF i + 2 <= Len(imgs) THEN OrNull(imgs[i + 2]) ELSE Null,
           isCover |-> FALSE, isBack |-> FALSE] >> \o MiddleSpreads_ToEnd(imgs, i + 2)
  ELSE << >>

\* the for loop of createSpreads, started at 0-based index i
RECURSIVE MiddleSpreads(_, _)
MiddleSpreads(imgs, i) ==
  IF i < Len(imgs) - 1
  THEN << [left |-> OrNull(imgs[i + 1]), right |-> OrNull(imgs[i + 2]),
           isCover |-> FALSE, isBack |-> FALSE] >> \o MiddleSpreads(imgs, i + 2)
  ELSE << >>

createSpreads(imgs) ==
  (IF Len(imgs) > 0
   THEN << [left |-> Null, right |-> imgs[1], isCover |-> TRUE, isBack |-> FALSE] >>
   ELSE << >>)
  \o MiddleSpreads(imgs, 1)
  \o (IF Len(imgs) > 1
      THEN << [left |-> imgs[Len(imgs)], right |-> Null, isCover |-> FALSE, isBack |-> TRUE] >>
      ELSE << >>)

\* what renderCurrentSpread leaves in the two page slots
renderCurrentSpread(sp, cs, old) ==
  IF cs < 0 \/ cs >= Len(sp) THEN old
  ELSE LET s == sp[cs + 1] IN
       IF s.isCover THEN [left |-> Null, right |-> s.right]
       ELSE IF s.isBack THEN [left |-> s.left, right |-> Null]
       ELSE [left |-> s.left, right |-> s.right]

\* ---------------------------------------------------------------- PageInfo
cssPageInfo(cs, sp) ==
  [index |-> cs * 2, total |-> Len(sp) * 2, spread |-> cs, totalSpreads |-> Len(sp)]

glPageInfo(cp, n) ==
  [index |-> cp, total |-> n, spread |-> cp \div 2, totalSpreads |-> CeilHalf(n)]

getCurrentPage ==
  IF renderMode = "css" THEN cssPageInfo(currentSpread, spreads)
  ELSE glPageInfo(currentPage, pages)

getIsAnimating == IF renderMode = "css" THEN isFlipping ELSE isAnimating

\* nothing has been released yet
NoneReleased(L) ==
  [texture |-> [i \in 1..L |-> 0], material |-> [i \in 1..L |-> 0],
   geometry |-> [i \in 1..L |-> 0], context |-> 0, node |-> 0]

\* `walk' once anything but a nextPage() call on an idle engine has happened
Offtrack == [pure |-> FALSE, calls |-> 0]

\* ---------------------------------------------------------- configuration
\* an object with no own property; spreading `undefined' adds nothing either
NoFields == [k \in {} |-> TRUE]

Has(obj, k) == k \in DOMAIN obj

\* obj.k, or the empty object when the property is missing (`obj?.k' under a spread)
Group(obj, k) == IF Has(obj, k) THEN obj[k] ELSE NoFields

\* the object spread { ...a, ...b }
Merge(a, b) == [k \in DOMAIN a \cup DOMAIN b |-> IF Has(b, k) THEN b[k] ELSE a[k]]

defaultConfig ==
  [renderMode |-> "css", layout |-> "spread", initialPage |-> 0,
   animation |-> [duration |-> 800, easing |-> "ease-in-out", physics |-> FALSE],
   navigation |-> [keyboard |-> TRUE, touch |-> TRUE, click |-> TRUE, arrows |-> TRUE,
                   pageIndicator |-> TRUE],
   theme |-> [backgroundColor |-> "#000000",
              pageShadow |-> [enabled |-> TRUE, color |-> "rgba(0, 0, 0, 0.3)",
                              blur |-> 20, offset |-> 5],
              spine |-> [enabled |-> TRUE, color |-> "#666666", width |-> 2]],
   loading |-> [showIndicator |-> TRUE, strategy |-> "progressive", preloadCount |-> 3],
   responsive |-> TRUE]

\* mergeConfig that spreads the top level only
mergeConfig_Shallow(defaults, userConfig) == Merge(defaults, userConfig)

\* Flipbook.mergeConfig
mergeConfig(defaults, userConfig) ==
  Merge(Merge(defaults, userConfig),
        [animation |-> Merge(Group(defaults, "animation"), Group(userConfig, "animation")),
         navigation |-> Merge(Group(defaults, "navigation"), Group(userConfig, "navigation")),
         theme |->
           Merge(Merge(Group(defaults, "theme"), Group(userConfig, "theme")),
                 [pageShadow |-> Merge(Group(Group(defaults, "theme"), "pageShadow"),
                                       Group(Group(userConfig, "theme"), "pageShadow")),
                  spine |-> Merge(Group(Group(defaults, "theme"), "spine"),
                                  Group(Group(userConfig, "theme"), "spine"))]),
         loading |-> Merge(Group(defaults, "loading"), Group(userConfig, "loading"))])

\* the media list of L items
MediaList(L) == [k \in 1..L |-> k - 1]

\* the least a caller passes: a mount element, a media list and a render mode
Basic(mode, L) ==
  [container |-> "element", media |-> [src |-> MediaList(L)], renderMode |-> mode]

\* a component that has not rendered yet: both refs null, the state at its
\* initial values
NoHook ==
  [mounted |-> FALSE, unmounted |-> FALSE,
   props |-> [enabled |-> TRUE, src |-> "a", mode |-> "css", container |-> FALSE],
   cleanup |-> FALSE, ref |-> 0, engines |-> << >>, isReady |-> FALSE]

\* ------------------------------------------------------------------- Init
\* the engine state an engine constructor leaves behind for a list of L items
FreshEngineWith(mode, L, f) ==
  /\ renderMode = mode
  /\ flags = f
  /\ subs = wired(mode, f)
  /\ teardown = << >>
  /\ images = MediaList(L)
  /\ spreads = IF renderMode = "css" THEN createSpreads(images) ELSE << >>
  /\ currentSpread = 0
  /\ isFlipping = FALSE
  /\ flipDirection = "null"
  /\ flippingPages = 0
  /\ rendered = [left |-> Null, right |-> Null]
  /\ timers = << >>
  /\ loadedImages = {}
  /\ failedLoads = {}
  /\ phase = "loading"
  /\ pages = 0
  /\ currentPage = 0
  /\ isAnimating = FALSE
  /\ tweens = << >>
  /\ currentPageMesh = << >>
  /\ visible = {}
  /\ turned = {}
  /\ uTexture = << >>
  /\ promises = << >>
  /\ emitted = << >>
  /\ pendingLoads = 1..L
  /\ resolved = [k \in 1..L |-> Null]
  /\ fired = [onLoadComplete |-> 0, onReady |-> 0, onError |-> 0]
  /\ walk = [pure |-> TRUE, calls |-> 0]
  /\ destroyCalls = 0
  /\ mounted = TRUE
  /\ listening = TRUE
  /\ looping = FALSE
  /\ textures = 0
  /\ released = NoneReleased(L)

FreshEngine(mode, L) == FreshEngineWith(mode, L, DefaultFlags)

\* the state `new Flipbook(Basic(mode, L))' leaves behind
Construct(mode, L) ==
  /\ FreshEngine(mode, L)
  /\ lastOp = Op("constructor", "", 0, 0)
  /\ config = mergeConfig(defaultConfig, Basic(mode, L))
  /\ built = "yes"
  /\ updates = 0
  /\ hook = NoHook

Init == \E mode \in {"css", "webgl"}, L \in 0..MaxLen : Construct(mode, L)

\* ------------------------------------------------------------- event loop
allItems == 1..Len(images)

\* the continuation of `await Promise.all(...)' is ready to run
SettlePending ==
  phase = "loading" /\ (failedLoads # {} \/ pendingLoads = {})

\* a macrotask is dispatched only when the microtask queue is empty
Idle == promises = << >> /\ ~SettlePending

Settled(name, started, rejected) ==
  [op |-> name, started |-> started, rejected |-> rejected]

\* ------------------------------------------------------------ CSSEngine
\* performFlipAnimation whose timer commits the opposite direction
performFlipAnimation_Reversed(direction) ==
  /\ isFlipping' = TRUE
  /\ flipDirection' = direction
  /\ emitted' = << Ev("onAnimationStart", NoInfo) >>
  /\ flippingPages' = flippingPages + 1
  /\ timers' = Append(timers, IF direction = "forward" THEN "back" ELSE "forward")
  /\ UNCHANGED <<spreads, currentSpread, rendered>>

performFlipAnimation(direction) ==
  /\ isFlipping' = TRUE
  /\ flipDirection' = direction
  /\ emitted' = << Ev("onAnimationStart", NoInfo) >>
  /\ flippingPages' = flippingPages + 1
  /\ timers' = Append(timers, direction)
  /\ UNCHANGED <<spreads, currentSpread, rendered>>

cssNoop == emitted' = << >> /\ UNCHANGED cssVars

\* goToNextSpread without the isFlipping guard
goToNextSpread_NoFlipGuard ==
  IF currentSpread >= Len(spreads) - 1
  THEN cssNoop
  ELSE performFlipAnimation("forward")

goToNextSpread ==
  IF isFlipping \/ currentSpread >= Len(spreads) - 1
  THEN cssNoop
  ELSE performFlipAnimation("forward")

\* goToPrevSpread with the range guard off by one
goToPrevSpread_OffByOne ==
  IF isFlipping \/ currentSpread < 0
  THEN cssNoop
  ELSE performFlipAnimation("back")

goToPrevSpread ==
  IF isFlipping \/ currentSpread <= 0
  THEN cssNoop
  ELSE performFlipAnimation("back")

\* the timer callback announcing onAnimationEnd before onPageChange
FlipTimeout_EndFirst ==
  /\ renderMode = "css"
  /\ Idle
  /\ timers # << >>
  /\ LET direction == Head(timers)
          cs == IF direction = "forward" THEN currentSpread + 1 ELSE currentSpread - 1
     IN /\ currentSpread' = cs
        /\ rendered' = renderCurrentSpread(spreads, cs, rendered)
        /\ flippingPages' = IF flippingPages > 0 THEN flippingPages - 1 ELSE 0
        /\ isFlipping' = FALSE
        /\ flipDirection' = "null"
        /\ emitted' = << Ev("onAnimationEnd", NoInfo),
                         Ev("onPageChange", cssPageInfo(cs, spreads)) >>
  /\ timers' = Tail(timers)
  /\ lastOp' = Op("flipDone", "", 0, 0)
  /\ UNCHANGED <<spreads, glVars, loadVars, cfgVars, lifeVars, walk, promises>>

\* the setTimeout callback of performFlipAnimation
FlipTimeout ==
  /\ renderMode = "css"
  /\ Idle
  /\ timers # << >>
  /\ LET direction == Head(timers)
          cs == IF direction = "forward" THEN currentSpread + 1 ELSE currentSpread - 1
     IN /\ currentSpread' = cs
        /\ rendered' = renderCurrentSpread(spreads, cs, rendered)
        /\ flippingPages' = IF flippingPages > 0 THEN flippingPages - 1 ELSE 0
        /\ isFlipping' = FALSE
        /\ flipDirection' = "null"
        /\ emitted' = << Ev("onPageChange", cssPageInfo(cs, spreads)),
                         Ev("onAnimationEnd", NoInfo) >>
  /\ timers' = Tail(timers)
  /\ lastOp' = Op("flipDone", "", 0, 0)
  /\ UNCHANGED <<spreads, glVars, loadVars, cfgVars, lifeVars, walk, promises>>

cssNextPage ==
  /\ renderMode = "css"
  /\ Len(promises) < MaxPromises
  /\ goToNextSpread
  /\ promises' = Append(promises, Settled("nextPage", timers' # timers, FALSE))
  /\ lastOp' = Op("nextPage", "", 0, 0)
  /\ walk' = IF walk.pure /\ ~isFlipping /\ walk.calls < MaxCalls
             THEN [walk EXCEPT !.calls = @ + 1]
             ELSE Offtrack
  /\ UNCHANGED <<glVars, loadVars, cfgVars, lifeVars>>

cssPrevPage ==
  /\ renderMode = "css"
  /\ Len(promises) < MaxPromises
  /\ goToPrevSpread
  /\ promises' = Append(promises, Settled("prevPage", timers' # timers, FALSE))
  /\ lastOp' = Op("prevPage", "", 0, 0)
  /\ walk' = Offtrack
  /\ UNCHANGED <<glVars, loadVars, cfgVars, lifeVars>>

\* goToPage without the upper range check
cssGoToPage_NoUpperCheck(index) ==
  /\ renderMode = "css"
  /\ Len(promises) < MaxPromises
  /\ LET spreadIndex == index \div 2 IN
     IF spreadIndex < 0 \/ spreadIndex = currentSpread
     THEN cssNoop
     ELSE /\ currentSpread' = spreadIndex
          /\ rendered' = renderCurrentSpread(spreads, spreadIndex, rendered)
          /\ emitted' = << Ev("onPageChange", cssPageInfo(spreadIndex, spreads)) >>
          /\ UNCHANGED <<spreads, isFlipping, flipDirection, flippingPages, timers>>
  /\ promises' = Append(promises, Settled("goToPage", FALSE, FALSE))
  /\ lastOp' = Op("goToPage", "", index, 0)
  /\ walk' = Offtrack
  /\ UNCHANGED <<glVars, loadVars, cfgVars, lifeVars>>

cssGoToPage(index) ==
  /\ renderMode = "css"
  /\ Len(promises) < MaxPromises
  /\ LET spreadIndex == index \div 2 IN
     IF spreadIndex < 0 \/ spreadIndex >= Len(spreads) \/ spreadIndex = currentSpread
     THEN cssNoop
     ELSE /\ currentSpread' = spreadIndex
          /\ rendered' = renderCurrentSpread(spreads, spreadIndex, rendered)
          /\ emitted' = << Ev("onPageChange", cssPageInfo(spreadIndex, spreads)) >>
          /\ UNCHANGED <<spreads, isFlipping, flipDirection, flippingPages, timers>>
  /\ promises' = Append(promises, Settled("goToPage", FALSE, FALSE))
  /\ lastOp' = Op("goToPage", "", index, 0)
  /\ walk' = Offtrack
  /\ UNCHANGED <<glVars, loadVars, cfgVars, lifeVars>>

\* --- inputs wired by CSSEngine.bindEvents
Keys == {"ArrowRight", "ArrowLeft", "Enter"}

handleKeyDown(key) ==
  /\ renderMode = "css"
  /\ navigation.keyboard
  /\ listening
  /\ Idle
  /\ IF isFlipping THEN cssNoop
     ELSE IF key = "ArrowRight" THEN goToNextSpread
     ELSE IF key = "ArrowLeft" THEN goToPrevSpread
     ELSE cssNoop
  /\ lastOp' = Op("keydown", key, 0, 0)
  /\ walk' = Offtrack
  /\ UNCHANGED <<glVars, loadVars, cfgVars, lifeVars, promises>>

pageClick(clickX) ==
  /\ renderMode = "css"
  /\ navigation.click
  /\ mounted
  /\ Idle
  /\ IF isFlipping THEN cssNoop
     ELSE IF clickX * 2 < PageWidth THEN goToPrevSpread
     ELSE goToNextSpread
  /\ lastOp' = Op("click", "", clickX, 0)
  /\ walk' = Offtrack
  /\ UNCHANGED <<glVars, loadVars, cfgVars, lifeVars, promises>>

arrowClick(direction) ==
  /\ renderMode = "css"
  /\ navigation.arrows
  /\ mounted
  /\ Idle
  /\ IF direction = "prev" THEN goToPrevSpread ELSE goToNextSpread
  /\ lastOp' = Op("arrow", direction, 0, 0)
  /\ walk' = Offtrack
  /\ UNCHANGED <<glVars, loadVars, cfgVars, lifeVars, promises>>

\* touchend with the two drag directions exchanged
touchEnd_Inverted(changedTouches, deltaX, deltaY) ==
  /\ renderMode = "css"
  /\ navigation.touch
  /\ mounted
  /\ Idle
  /\ IF isFlipping \/ changedTouches # 1 THEN cssNoop
     ELSE IF Abs(deltaX) > Abs(deltaY) /\ Abs(deltaX) > SwipeThreshold
          THEN IF deltaX > 0 THEN goToNextSpread ELSE goToPrevSpread
          ELSE cssNoop
  /\ lastOp' = Op("touchend", IF changedTouches = 1 THEN "one" ELSE "many", deltaX, deltaY)
  /\ walk' = Offtrack
  /\ UNCHANGED <<glVars, loadVars, cfgVars, lifeVars, promises>>

touchEnd(changedTouches, deltaX, deltaY) ==
  /\ renderMode = "css"
  /\ navigation.touch
  /\ mounted
  /\ Idle
  /\ IF isFlipping \/ changedTouches # 1 THEN cssNoop
     ELSE IF Abs(deltaX) > Abs(deltaY) /\ Abs(deltaX) > SwipeThreshold
          THEN IF deltaX > 0 THEN goToPrevSpread ELSE goToNextSpread
          ELSE cssNoop
  /\ lastOp' = Op("touchend", IF changedTouches = 1 THEN "one" ELSE "many", deltaX, deltaY)
  /\ walk' = Offtrack
  /\ UNCHANGED <<glVars, loadVars, cfgVars, lifeVars, promises>>

\* ----------------------------------------------------------- WebGLEngine
\* this.pages[i] is a mesh (not undefined)
hasMesh(i) == 0 <= i /\ i < pages

glNoop == emitted' = << >> /\ UNCHANGED glVars

\* body of WebGLEngine.nextPage; `threw' tells whether it ended in a TypeError
glNext(threw) ==
  IF isAnimating \/ currentPage >= pages - 1
  THEN glNoop /\ threw = FALSE
  ELSE /\ isAnimating' = TRUE
       /\ emitted' = << Ev("onAnimationStart", NoInfo) >>
       /\ threw = ~(hasMesh(currentPage) /\ hasMesh(currentPage + 1))
       /\ visible' = IF hasMesh(currentPage + 1)
                     THEN visible \cup {currentPage + 1} ELSE visible
       /\ tweens' = IF threw THEN tweens ELSE Append(tweens, "forward")
       /\ currentPageMesh' = IF threw THEN currentPageMesh
                             ELSE Append(currentPageMesh, currentPage)
       /\ UNCHANGED <<pages, uTexture, currentPage, turned>>

\* body of WebGLEngine.prevPage
glPrev(threw) ==
  IF isAnimating \/ currentPage <= 0
  THEN glNoop /\ threw = FALSE
  ELSE /\ isAnimating' = TRUE
       /\ emitted' = << Ev("onAnimationStart", NoInfo) >>
       /\ threw = ~hasMesh(currentPage - 1)
       /\ visible' = IF threw THEN visible ELSE visible \cup {currentPage - 1}
       /\ turned' = IF threw THEN turned ELSE turned \cup {currentPage - 1}
       /\ tweens' = IF threw THEN tweens ELSE Append(tweens, "back")
       /\ currentPageMesh' = IF threw THEN currentPageMesh
                             ELSE Append(currentPageMesh, currentPage)
       /\ UNCHANGED <<pages, uTexture, currentPage>>

\* the onComplete callback of the gsap timeline, run when the tween has
\* brought its mesh to the target rotation (the page turned away to -PI, the
\* page turned back to 0); the position, the flag and the events are all
\* settled before the callback touches the mesh it hides, so a missing mesh
\* there changes none of the modelled state
TweenComplete ==
  /\ renderMode = "webgl"
  /\ Idle
  /\ tweens # << >>
  /\ LET cp == IF Head(tweens) = "forward" THEN currentPage + 1 ELSE currentPage - 1
     IN /\ currentPage' = cp
        /\ isAnimating' = FALSE
        /\ emitted' = << Ev("onPageChange", glPageInfo(cp, pages)),
                         Ev("onAnimationEnd", NoInfo) >>
  /\ LET mesh == Head(currentPageMesh)
     IN /\ visible' = visible \ {mesh}
        /\ turned' = IF mesh = Null THEN turned
                      ELSE IF Head(tweens) = "forward" THEN turned \cup {mesh}
                      ELSE turned \ {mesh - 1}
  /\ tweens' = Tail(tweens)
  /\ currentPageMesh' = Tail(currentPageMesh)
  /\ lastOp' = Op("flipDone", "", 0, 0)
  /\ UNCHANGED <<pages, uTexture, cssVars, loadVars, cfgVars, lifeVars, walk, promises>>

glNextPage ==
  /\ renderMode = "webgl"
  /\ Len(promises) < MaxPromises
  /\ \E threw \in BOOLEAN :
        /\ glNext(threw)
        /\ promises' = Append(promises, Settled("nextPage", tweens' # tweens, threw))
  /\ lastOp' = Op("nextPage", "", 0, 0)
  /\ UNCHANGED <<cssVars, loadVars, cfgVars, lifeVars, walk>>

glPrevPage ==
  /\ renderMode = "webgl"
  /\ Len(promises) < MaxPromises
  /\ \E threw \in BOOLEAN :
        /\ glPrev(threw)
        /\ promises' = Append(promises, Settled("prevPage", tweens' # tweens, threw))
  /\ lastOp' = Op("prevPage", "", 0, 0)
  /\ UNCHANGED <<cssVars, loadVars, cfgVars, lifeVars, walk>>

\* goToPage jumping without announcing the page change
glGoToPage_Silent(pageIndex) ==
  /\ renderMode = "webgl"
  /\ Len(promises) < MaxPromises
  /\ IF pageIndex < 0 \/ pageIndex >= pages \/ pageIndex = currentPage
     THEN glNoop /\ promises' = Append(promises, Settled("goToPage", FALSE, FALSE))
     ELSE IF ~hasMesh(currentPage)
     THEN glNoop /\ promises' = Append(promises, Settled("goToPage", FALSE, TRUE))
     ELSE /\ currentPage' = pageIndex
          /\ visible' = (visible \ {currentPage}) \cup {pageIndex}
          /\ turned' = turned \ {pageIndex}
          /\ emitted' = << >>
          /\ promises' = Append(promises, Settled("goToPage", FALSE, FALSE))
          /\ UNCHANGED <<pages, uTexture, isAnimating, tweens, currentPageMesh>>
  /\ lastOp' = Op("goToPage", "", pageIndex, 0)
  /\ UNCHANGED <<cssVars, loadVars, cfgVars, lifeVars, walk>>

glGoToPage(pageIndex) ==
  /\ renderMode = "webgl"
  /\ Len(promises) < MaxPromises
  /\ IF pageIndex < 0 \/ pageIndex >= pages \/ pageIndex = currentPage
     THEN glNoop /\ promises' = Append(promises, Settled("goToPage", FALSE, FALSE))
     ELSE IF ~hasMesh(currentPage)
     THEN glNoop /\ promises' = Append(promises, Settled("goToPage", FALSE, TRUE))
     ELSE /\ currentPage' = pageIndex
          /\ visible' = (visible \ {currentPage}) \cup {pageIndex}
          /\ turned' = turned \ {pageIndex}
          /\ emitted' = << Ev("onPageChange", glPageInfo(pageIndex, pages)) >>
          /\ promises' = Append(promises, Settled("goToPage", FALSE, FALSE))
          /\ UNCHANGED <<pages, uTexture, isAnimating, tweens, currentPageMesh>>
  /\ lastOp' = Op("goToPage", "", pageIndex, 0)
  /\ UNCHANGED <<cssVars, loadVars, cfgVars, lifeVars, walk>>

\* --- inputs wired by WebGLEngine.bindEvents
\* uvX is the hit's texture coordinate in quarters (uv.x = uvX / 4); Null: no uv
UvQuarters == {Null, 1, 2, 3}

handleInteraction(hit, uvX) ==
  IF hit /\ pages > 0
  THEN IF uvX # Null /\ uvX * 2 < 4
       THEN \E threw \in BOOLEAN : glPrev(threw)
       ELSE \E threw \in BOOLEAN : glNext(threw)
  ELSE glNoop

onMouseDown(hit, uvX) ==
  /\ renderMode = "webgl"
  /\ navigation.click
  /\ listening
  /\ Idle
  /\ IF isAnimating THEN glNoop ELSE handleInteraction(hit, uvX)
  /\ lastOp' = Op("mousedown", IF hit THEN "hit" ELSE "miss", uvX, 0)
  /\ UNCHANGED <<cssVars, loadVars, cfgVars, lifeVars, walk, promises>>

onTouchStart(touches, hit, uvX) ==
  /\ renderMode = "webgl"
  /\ navigation.click /\ navigation.touch
  /\ listening
  /\ Idle
  /\ IF isAnimating \/ touches # 1 THEN glNoop ELSE handleInteraction(hit, uvX)
  /\ lastOp' = Op("touchstart", IF hit THEN "hit" ELSE "miss", uvX, touches)
  /\ UNCHANGED <<cssVars, loadVars, cfgVars, lifeVars, walk, promises>>

\* ---------------------------------------------------------------- loading
Progress(loaded, total) == [loaded |-> loaded, total |-> total]

\* Promise.all handing out its values in the order the promises resolved
Collect_InArrivalOrder(values, i, v) ==
  LET open == {k \in DOMAIN values : values[k] = Null}
  IN IF open = {} THEN values
     ELSE [values EXCEPT ![CHOOSE k \in open : \A j \in open : k <= j] = v]

\* Promise.all: the value of the i-th promise becomes the i-th value
Collect(values, i, v) == [values EXCEPT ![i] = v]

\* img.onload (CSSEngine.loadImage) / the onLoad callback of loader.load,
\* which resolves the i-th promise with the texture of the i-th locator; the
\* layered engine's promises carry no value
LoadSuccess(i) ==
  /\ Idle
  /\ i \in pendingLoads
  /\ pendingLoads' = pendingLoads \ {i}
  /\ loadedImages' = loadedImages \cup {i}
  /\ resolved' = IF renderMode = "webgl" THEN Collect(resolved, i, images[i])
                  ELSE resolved
  /\ emitted' = << Ev("onLoadProgress",
                     IF renderMode = "css"
                     THEN Progress(Cardinality(loadedImages'), Len(images))
                     ELSE Progress(i, Len(images))) >>
  /\ lastOp' = Op("loadSuccess", "", i, 0)
  /\ UNCHANGED <<failedLoads, phase, fired, cssVars, glVars, cfgVars, lifeVars, walk,
                 promises>>

\* a failing load reporting onError by itself, once per failed item
LoadFailure_ReportsEach(i) ==
  /\ Idle
  /\ i \in pendingLoads
  /\ pendingLoads' = pendingLoads \ {i}
  /\ failedLoads' = failedLoads \cup {i}
  /\ emitted' = << Ev("onError", NoInfo) >>
  /\ fired' = [fired EXCEPT !.onError = @ + 1]
  /\ lastOp' = Op("loadFailure", "", i, 0)
  /\ UNCHANGED <<loadedImages, phase, resolved, cssVars, glVars, cfgVars, lifeVars, walk,
                 promises>>

\* img.onerror / the onError callback of loader.load
LoadFailure(i) ==
  /\ Idle
  /\ i \in pendingLoads
  /\ pendingLoads' = pendingLoads \ {i}
  /\ failedLoads' = failedLoads \cup {i}
  /\ emitted' = << >>
  /\ lastOp' = Op("loadFailure", "", i, 0)
  /\ UNCHANGED <<loadedImages, phase, fired, resolved, cssVars, glVars, cfgVars, lifeVars, walk,
                 promises>>

\* continuation of Promise.all once every load has resolved; the scene-graph
\* engine stores the textures, builds one mesh per texture and starts the
\* render loop
LoadComplete ==
  /\ phase = "loading"
  /\ failedLoads = {}
  /\ pendingLoads = {}
  /\ phase' = "ready"
  /\ IF renderMode = "css"
     THEN /\ rendered' = renderCurrentSpread(spreads, currentSpread, rendered)
          /\ UNCHANGED <<spreads, currentSpread, isFlipping, flipDirection,
                         flippingPages, timers, glVars, looping, textures>>
     ELSE /\ textures' = Len(images)
          /\ pages' = pages + Len(images)
          /\ visible' = IF Len(images) > 0 THEN visible \cup {pages} ELSE visible
          /\ looping' = TRUE
          /\ uTexture' = uTexture \o resolved
          /\ UNCHANGED <<currentPage, isAnimating, tweens, currentPageMesh, turned,
                         cssVars>>
  /\ emitted' = << Ev("onLoadComplete", NoInfo), Ev("onReady", NoInfo) >>
  /\ fired' = [fired EXCEPT !.onLoadComplete = @ + 1, !.onReady = @ + 1]
  /\ lastOp' = Op("loadComplete", "", 0, 0)
  /\ UNCHANGED <<loadedImages, failedLoads, pendingLoads, resolved, cfgVars, walk, promises,
                 destroyCalls, mounted, listening, released, subs, teardown>>

\* continuation of Promise.all once a load has rejected
LoadRejected ==
  /\ phase = "loading"
  /\ failedLoads # {}
  /\ phase' = "failed"
  /\ emitted' = << Ev("onError", NoInfo) >>
  /\ fired' = [fired EXCEPT !.onError = @ + 1]
  /\ lastOp' = Op("loadRejected", "", 0, 0)
  /\ UNCHANGED <<loadedImages, failedLoads, pendingLoads, resolved, cssVars, glVars, cfgVars,
                 lifeVars, walk, promises>>

\* --------------------------------------------------------------- disposal
\* add n to the release count of every resource 1..k of one kind
ReleaseEach(count, k, n) ==
  [i \in DOMAIN count |-> IF i <= k THEN count[i] + n ELSE count[i]]

\* CSSEngine.dispose: the pending flip timer and the pending loads are left
\* alone, and isFlipping / currentSpread keep their values
cssDispose ==
  /\ renderMode = "css"
  /\ destroyCalls < MaxDestroy
  /\ destroyCalls' = destroyCalls + 1
  /\ listening' = FALSE
  /\ subs' = subs \ (If(flags.keyboard, {"window.keydown"})
                       \cup If(flags.responsive, {"window.resize"}))
  /\ mounted' = FALSE
  /\ released' = [released EXCEPT !.node = IF mounted THEN @ + 1 ELSE @]
  /\ teardown' = << "unsubscribe", "detach", "clear" >>
  /\ spreads' = << >>
  /\ loadedImages' = {}
  /\ emitted' = << >>
  /\ lastOp' = Op("destroy", "", 0, 0)
  /\ UNCHANGED <<currentSpread, isFlipping, flipDirection, flippingPages, rendered,
                 timers, glVars, failedLoads, phase, pendingLoads, fired, resolved,
                 cfgVars, looping, textures, walk, promises>>

\* a release that throws inside dispose(): the kind of resource and the page
\* it belongs to; NoFault: nothing throws
NoFault == [kind |-> "none", at |-> 0]

hits(fault, kind, i) == fault.kind = kind /\ fault.at = i

\* add 1 to the release count of every resource i <= k whose release is
\* reached, that is, every one outside `skipped'
ReleaseWhere(count, k, skipped) ==
  [i \in DOMAIN count |->
     IF i <= k /\ i \notin skipped THEN count[i] + 1 ELSE count[i]]

\* the order of the steps of WebGLEngine.dispose
DisposeSteps == << "loop", "pages", "textures", "context", "detach", "unsubscribe" >>

\* the container and window subscriptions WebGLEngine.dispose removes
glOwned ==
  {"container.mousedown", "container.mousemove", "container.touchstart",
   "container.touchmove", "window.resize"}

\* WebGLEngine.dispose detaching the canvas before it releases the context
glDisposeWith_DetachFirst(fault) ==
  /\ renderMode = "webgl"
  /\ destroyCalls < MaxDestroy
  /\ destroyCalls' = destroyCalls + 1
  /\ looping' = FALSE
  /\ LET textureCut == If(fault.kind = "texture", {fault.at})
         materialCut == textureCut \cup If(fault.kind = "material", {fault.at})
         geometryCut == materialCut \cup If(fault.kind = "geometry", {fault.at})
         contextOk == fault.kind # "context"
     IN /\ released' =
             [released EXCEPT
                !.texture = ReleaseWhere(ReleaseWhere(@, pages, textureCut),
                                         textures, textureCut),
                !.material = ReleaseWhere(@, pages, materialCut),
                !.geometry = ReleaseWhere(@, pages, geometryCut),
                !.context = IF contextOk THEN @ + 1 ELSE @,
                !.node = IF mounted THEN @ + 1 ELSE @]
        /\ mounted' = FALSE
        /\ listening' = IF contextOk THEN FALSE ELSE listening
        /\ subs' = IF contextOk THEN subs \ glOwned ELSE subs
        /\ teardown' = IF contextOk
                       THEN << "loop", "pages", "textures", "detach", "context",
                               "unsubscribe" >>
                       ELSE << "loop", "pages", "textures", "detach" >>
  /\ pages' = 0
  /\ visible' = {}
  /\ turned' = {}
  /\ currentPageMesh' = [k \in DOMAIN currentPageMesh |-> Null]
  /\ uTexture' = << >>
  /\ textures' = 0
  /\ emitted' = << >>
  /\ lastOp' = Op("destroy", IF fault = NoFault THEN "" ELSE fault.kind, fault.at, 0)
  /\ UNCHANGED <<currentPage, isAnimating, tweens, cssVars, loadVars, cfgVars, walk,
                 promises>>

\* WebGLEngine.dispose: each page's uniforms (its texture), material and
\* geometry are disposed inside one try block per page, then every stored
\* texture is disposed again, each in its own try block; the renderer is
\* kept, so every call disposes it once more; pending tweens and pending
\* loads are left alone.  The renderer block, the detaching of the canvas and
\* the removal of the listeners share the outer try block only, so a throw in
\* the renderer block skips what follows it; nothing is rethrown
glDisposeWith(fault) ==
  /\ renderMode = "webgl"
  /\ destroyCalls < MaxDestroy
  /\ destroyCalls' = destroyCalls + 1
  /\ looping' = FALSE
  /\ LET textureCut == If(fault.kind = "texture", {fault.at})
         materialCut == textureCut \cup If(fault.kind = "material", {fault.at})
         geometryCut == materialCut \cup If(fault.kind = "geometry", {fault.at})
         contextOk == fault.kind # "context"
     IN /\ released' =
             [released EXCEPT
                !.texture = ReleaseWhere(ReleaseWhere(@, pages, textureCut),
                                         textures, textureCut),
                !.material = ReleaseWhere(@, pages, materialCut),
                !.geometry = ReleaseWhere(@, pages, geometryCut),
                !.context = IF contextOk THEN @ + 1 ELSE @,
                !.node = IF contextOk /\ mounted THEN @ + 1 ELSE @]
        /\ mounted' = IF contextOk THEN FALSE ELSE mounted
        /\ listening' = IF contextOk THEN FALSE ELSE listening
        /\ subs' = IF contextOk THEN subs \ glOwned ELSE subs
        /\ teardown' = IF contextOk THEN DisposeSteps ELSE SubSeq(DisposeSteps, 1, 3)
  /\ pages' = 0
  /\ visible' = {}
  /\ turned' = {}
  /\ currentPageMesh' = [k \in DOMAIN currentPageMesh |-> Null]
  /\ uTexture' = << >>
  /\ textures' = 0
  /\ emitted' = << >>
  /\ lastOp' = Op("destroy", IF fault = NoFault THEN "" ELSE fault.kind, fault.at, 0)
  /\ UNCHANGED <<currentPage, isAnimating, tweens, cssVars, loadVars, cfgVars, walk,
                 promises>>

\* WebGLEngine.dispose when no release throws
glDispose == glDisposeWith(NoFault)

\* ----------------------------------------------------------------- facade
\* Flipbook.nextPage / prevPage / goToPage forward to the engine
nextPage == cssNextPage \/ glNextPage
prevPage == cssPrevPage \/ glPrevPage
goToPage(index) == cssGoToPage(index) \/ glGoToPage(index)

\* Flipbook.destroy
destroy == cssDispose \/ glDispose

\* Flipbook.getLoadingProgress
getLoadingProgress ==
  [loaded |-> getCurrentPage.total, total |-> getCurrentPage.total, progress |-> 1]

\* the reaction of the caller awaiting the oldest settled API promise
PromiseSettles ==
  /\ promises # << >>
  /\ LET p == Head(promises) IN
       lastOp' = Op("settled", p.op, IF p.started THEN 1 ELSE 0,
                    IF p.rejected THEN 1 ELSE 0)
  /\ promises' = Tail(promises)
  /\ emitted' = << >>
  /\ UNCHANGED <<cssVars, glVars, loadVars, cfgVars, lifeVars, walk>>

\* ------------------------------------------------------------------- Next
\* touchend inputs <<changedTouches, deltaX, deltaY>>: swipe left, swipe right,
\* too short, exactly the minimum, mostly vertical, two fingers
Swipes == { <<1, -60, 0>>, <<1, 60, 0>>, <<1, -40, 0>>, <<1, 50, 0>>, <<1, 60, 80>>,
            <<2, -60, 0>> }

\* pointer inputs <<hit, uvX>>: a miss, and a hit on each side of the page
Pointers == { <<FALSE, Null>> } \cup { <<TRUE, q>> : q \in UvQuarters }

Next ==
  \/ nextPage
  \/ prevPage
  \/ \E index \in -1..MaxIndex : goToPage(index)
  \/ PromiseSettles
  \/ FlipTimeout
  \/ TweenComplete
  \/ \E key \in Keys : handleKeyDown(key)
  \/ \E clickX \in {1, 3} : pageClick(clickX)
  \/ \E direction \in {"prev", "next"} : arrowClick(direction)
  \/ \E t \in Swipes : touchEnd(t[1], t[2], t[3])
  \/ \E h \in Pointers : onMouseDown(h[1], h[2])
  \/ \E n \in {1, 2}, h \in Pointers : onTouchStart(n, h[1], h[2])
  \/ \E i \in 1..MaxLen : LoadSuccess(i)
  \/ \E i \in 1..MaxLen : LoadFailure(i)
  \/ LoadComplete
  \/ LoadRejected

Spec == Init /\ [][Next]_vars

\* --- the engine's whole life, destroy() included: the API, the pending
\* callbacks and the loads; of the wired inputs, which request the same flips
\* as nextPage / prevPage, the keyboard and the mouse stand for all
LifeNext ==
  \/ nextPage
  \/ prevPage
  \/ \E index \in -1..MaxIndex : goToPage(index)
  \/ destroy
  \/ PromiseSettles
  \/ FlipTimeout
  \/ TweenComplete
  \/ \E key \in Keys : handleKeyDown(key)
  \/ \E h \in Pointers : onMouseDown(h[1], h[2])
  \/ \E i \in 1..MaxLen : LoadSuccess(i)
  \/ \E i \in 1..MaxLen : LoadFailure(i)
  \/ LoadComplete
  \/ LoadRejected

InitLife == \E mode \in {"css", "webgl"}, L \in 0..LifeLen : Construct(mode, L)

LifeSpec == InitLife /\ [][LifeNext]_vars

\* --- the sequential walk: a layered engine on which nextPage() is the only
\* operation called
InitWalk == \E L \in 0..WalkLen : Construct("css", L)

NextWalk ==
  \/ cssNextPage
  \/ PromiseSettles
  \/ FlipTimeout
  \/ \E i \in 1..WalkLen : LoadSuccess(i)
  \/ LoadComplete

WalkSpec == InitWalk /\ [][NextWalk]_vars

\* --- the facade's own construction: `new Flipbook(user)' on a page where the
\* 3D capability is or is not available
FacadeLen == 2       \* longest media list handed to the Flipbook constructor
MaxUpdates == 2      \* updateConfig() calls made on one instance

\* nothing constructed yet
Unbuilt ==
  /\ renderMode = "none"
  /\ images = << >>
  /\ spreads = << >>
  /\ currentSpread = 0
  /\ isFlipping = FALSE
  /\ flipDirection = "null"
  /\ flippingPages = 0
  /\ rendered = [left |-> Null, right |-> Null]
  /\ timers = << >>
  /\ loadedImages = {}
  /\ failedLoads = {}
  /\ phase = "none"
  /\ pages = 0
  /\ currentPage = 0
  /\ isAnimating = FALSE
  /\ tweens = << >>
  /\ currentPageMesh = << >>
  /\ visible = {}
  /\ turned = {}
  /\ uTexture = << >>
  /\ promises = << >>
  /\ emitted = << >>
  /\ lastOp = Op("none", "", 0, 0)
  /\ pendingLoads = {}
  /\ resolved = << >>
  /\ fired = [onLoadComplete |-> 0, onReady |-> 0, onError |-> 0]
  /\ walk = [pure |-> TRUE, calls |-> 0]
  /\ destroyCalls = 0
  /\ mounted = FALSE
  /\ listening = FALSE
  /\ looping = FALSE
  /\ textures = 0
  /\ released = NoneReleased(0)
  /\ config = NoFields
  /\ built = "no"
  /\ updates = 0
  /\ hook = NoHook
  /\ flags = DefaultFlags
  /\ subs = {}
  /\ teardown = << >>

Thrown(message) == [thrown |-> message]

\* validateConfig that accepts a configuration without media
validateConfig_NoMediaCheck(cfg, webglSupported) ==
  IF ~Has(cfg, "container")
  THEN Thrown("Container element is required")
  ELSE IF cfg.renderMode = "webgl" /\ ~webglSupported
  THEN [cfg EXCEPT !.renderMode = "css"]
  ELSE cfg

\* Flipbook.validateConfig: the configuration it leaves behind, or what it throws
validateConfig(cfg, webglSupported) ==
  IF ~Has(cfg, "container")
  THEN Thrown("Container element is required")
  ELSE IF ~Has(cfg, "media") \/ ~Has(cfg.media, "src")
  THEN Thrown("Media source is required")
  ELSE IF cfg.renderMode = "webgl" /\ ~webglSupported
  THEN [cfg EXCEPT !.renderMode = "css"]
  ELSE cfg

\* config.media.src as the engines iterate it
srcOf(cfg) == IF Has(cfg, "media") /\ Has(cfg.media, "src") THEN cfg.media.src ELSE << >>

\* the engine constructors resolve a selector with document.querySelector
NoMatch == "#missing"

\* the switches the engine reads from the configuration it is handed
flagsOf(cfg) ==
  [k \in DOMAIN DefaultFlags |->
     IF k = "responsive" THEN cfg.responsive ELSE cfg.navigation[k]]

\* an engine choice that ignores the resolved render mode
engineFor_Always3D(cfg) == "webgl"

\* the engine class the constructor instantiates
engineFor(cfg) == IF cfg.renderMode = "webgl" THEN "webgl" ELSE "css"

\* new Flipbook(user); lastOp.x = 1 tells that validateConfig logged the
\* warning 'WebGL not supported, falling back to CSS rendering'
FlipbookConstructor(user, webglSupported) ==
  /\ built = "no"
  /\ emitted' = << >>
  /\ LET merged == mergeConfig(defaultConfig, user)
         valid == validateConfig(merged, webglSupported)
     IN IF Has(valid, "thrown") \/ valid.container = NoMatch
        THEN /\ built' = "threw"
             /\ lastOp' = Op("constructor",
                             IF Has(valid, "thrown") THEN valid.thrown
                             ELSE "Container element not found", 0, 0)
             /\ UNCHANGED <<renderMode, images, config, cssVars, glVars, loadVars,
                            lifeVars, walk, promises, updates, hook, flags>>
        ELSE /\ built' = "yes"
             /\ lastOp' = Op("constructor", "",
                             IF valid.renderMode # merged.renderMode THEN 1 ELSE 0, 0)
             /\ config' = valid
             /\ renderMode' = engineFor(valid)
             /\ images' = srcOf(valid)
             /\ spreads' = IF engineFor(valid) = "css"
                           THEN createSpreads(srcOf(valid)) ELSE << >>
             /\ currentSpread' = 0
             /\ isFlipping' = FALSE
             /\ flipDirection' = "null"
             /\ flippingPages' = 0
             /\ rendered' = [left |-> Null, right |-> Null]
             /\ timers' = << >>
             /\ loadedImages' = {}
             /\ failedLoads' = {}
             /\ phase' = "loading"
             /\ pages' = 0
             /\ currentPage' = 0
             /\ isAnimating' = FALSE
             /\ tweens' = << >>
             /\ currentPageMesh' = << >>
             /\ visible' = {}
             /\ turned' = {}
             /\ uTexture' = << >>
             /\ promises' = << >>
             /\ pendingLoads' = 1..Len(srcOf(valid))
             /\ resolved' = [k \in 1..Len(srcOf(valid)) |-> Null]
             /\ fired' = [onLoadComplete |-> 0, onReady |-> 0, onError |-> 0]
             /\ walk' = [pure |-> TRUE, calls |-> 0]
             /\ destroyCalls' = 0
             /\ mounted' = TRUE
             /\ listening' = TRUE
             /\ flags' = flagsOf(valid)
             /\ subs' = wired(engineFor(valid), flagsOf(valid))
             /\ teardown' = << >>
             /\ looping' = FALSE
             /\ textures' = 0
             /\ released' = NoneReleased(Len(srcOf(valid)))
             /\ UNCHANGED <<updates, hook>>

\* Flipbook.updateConfig
updateConfig(newConfig) ==
  /\ built = "yes"
  /\ updates < MaxUpdates
  /\ updates' = updates + 1
  /\ config' = mergeConfig(config, newConfig)
  /\ emitted' = << >>
  /\ lastOp' = Op("updateConfig", "", 0, 0)
  /\ UNCHANGED <<renderMode, images, built, hook, flags, cssVars, glVars, loadVars,
                 lifeVars, walk, promises>>

\* Flipbook.getConfig
getConfig == config

\* nested groups a caller may pass in part; none touches the four input
\* switches the engine constructor reads
Groups ==
  { [animation |-> [duration |-> 300]],
    [navigation |-> [pageIndicator |-> FALSE]],
    [theme |-> [backgroundColor |-> "#ffffff"]],
    [theme |-> [pageShadow |-> [blur |-> 5]]],
    [theme |-> [spine |-> [enabled |-> FALSE, width |-> 4]]],
    [loading |-> [preloadCount |-> 1]] }

\* what callers hand to the constructor
UserConfigs ==
  { Basic(mode, L) : mode \in {"css", "webgl"}, L \in 0..FacadeLen }
    \cup { Merge(Basic(mode, L), [initialPage |-> 1]) :
             mode \in {"css", "webgl"}, L \in 0..FacadeLen }
    \cup { Merge(Basic("css", FacadeLen), g) : g \in Groups }
    \cup { [container |-> "element", media |-> [src |-> MediaList(FacadeLen)]],
           [media |-> [src |-> MediaList(FacadeLen)], renderMode |-> "css"],
           [container |-> "element", renderMode |-> "webgl"],
           [container |-> "element", media |-> [type |-> "images"]],
           [container |-> NoMatch, media |-> [src |-> MediaList(1)]] }

\* what callers hand to updateConfig
NewConfigs ==
  Groups \cup { [navigation |-> [keyboard |-> FALSE]],
                [media |-> [src |-> MediaList(1)]],
                [renderMode |-> "webgl"],
                [renderMode |-> "css"] }

InitFacade == Unbuilt

FacadeNext ==
  \/ \E user \in UserConfigs, webglSupported \in BOOLEAN :
        FlipbookConstructor(user, webglSupported)
  \/ \E newConfig \in NewConfigs : updateConfig(newConfig)
  \/ nextPage
  \/ PromiseSettles
  \/ FlipTimeout
  \/ TweenComplete
  \/ \E i \in 1..FacadeLen : LoadSuccess(i)
  \/ LoadComplete

FacadeSpec == InitFacade /\ [][FacadeNext]_vars

\* --- the start of an instance: construction and loading, no navigation
StartNext ==
  \/ \E user \in UserConfigs, webglSupported \in BOOLEAN :
        FlipbookConstructor(user, webglSupported)
  \/ \E i \in 1..FacadeLen : LoadSuccess(i)
  \/ \E i \in 1..FacadeLen : LoadFailure(i)
  \/ LoadComplete
  \/ LoadRejected

StartSpec == InitFacade /\ [][StartNext]_vars

\* --- configuration resolution alone: construction and updateConfig calls
\* that pass nested groups in part
SubRecords(r) == { [k \in S |-> r[k]] : S \in SUBSET DOMAIN r }

Partials ==
  { [animation |-> a] :
      a \in SubRecords([duration |-> 300, easing |-> "linear", physics |-> TRUE]) }
    \cup Groups
    \cup { [navigation |-> [keyboard |-> FALSE, arrows |-> FALSE]],
           [theme |-> [pageShadow |-> [enabled |-> FALSE, offset |-> 0]]],
           [theme |-> [backgroundColor |-> "#222222", spine |-> [color |-> "#000000"]]],
           [loading |-> [showIndicator |-> FALSE, strategy |-> "lazy"]] }

MergeNext ==
  \/ \E user \in UserConfigs, webglSupported \in BOOLEAN :
        FlipbookConstructor(user, webglSupported)
  \/ \E newConfig \in Partials : updateConfig(newConfig)

MergeSpec == InitFacade /\ [][MergeNext]_vars

\* --- the React hook useFlipbook: one component instance, the engines its
\* effect creates over time, and what outlives destroy() in each of them
MaxEngines == 3      \* engines one hook instance constructs

\* media.src values a render may pass; the empty locator is rejected by
\* validateConfig
HookSrcs == {"a", "b", ""}

HookProps ==
  [enabled : BOOLEAN, src : HookSrcs, mode : {"css", "webgl"}, container : BOOLEAN]

\* createFlipbook(config) inside the effect: an attached engine whose loads
\* are pending
newEngine(props) ==
  [mode |-> props.mode, src |-> props.src, disposed |-> 0, attached |-> TRUE,
   loading |-> TRUE, looping |-> FALSE]

\* CSSEngine.dispose / WebGLEngine.dispose as far as the hook is concerned:
\* the node is detached and the frame loop cancelled; pending loads are not
engineDispose(e) ==
  [e EXCEPT !.disposed = @ + 1, !.attached = FALSE, !.looping = FALSE]

\* `flipbookRef.current.destroy(); flipbookRef.current = null'
dropCurrent(h) ==
  IF h.ref = 0 THEN h
  ELSE [h EXCEPT !.engines[h.ref] = engineDispose(@), !.ref = 0]

\* the function the effect returned, if it returned one
runCleanup(h) ==
  IF h.cleanup
  THEN [dropCurrent(h) EXCEPT !.cleanup = FALSE, !.isReady = FALSE]
  ELSE h

\* the effect body
runEffect(h, props) ==
  IF ~props.enabled \/ ~props.container
  THEN [h EXCEPT !.cleanup = FALSE]
  ELSE LET h1 == dropCurrent(h)
       IN IF props.src = ""
          THEN [h1 EXCEPT !.cleanup = TRUE]
          ELSE [h1 EXCEPT !.engines = Append(@, newEngine(props)),
                          !.ref = Len(h1.engines) + 1,
                          !.cleanup = TRUE]

deps(props) == <<props.enabled, props.src, props.mode>>

engineSide ==
  <<renderMode, images, config, built, updates, flags, cssVars, glVars, loadVars,
    lifeVars, walk, promises>>

\* first render of the component
hookMount(props) ==
  /\ ~hook.mounted /\ ~hook.unmounted
  /\ hook' = [runEffect(hook, props) EXCEPT !.mounted = TRUE, !.props = props]
  /\ emitted' = << >>
  /\ lastOp' = Op("mount", "", 0, 0)
  /\ UNCHANGED engineSide

\* a later render; the effect re-runs when one of its dependencies changed
hookRender(props) ==
  /\ hook.mounted
  /\ props # hook.props
  /\ LET h == IF deps(props) # deps(hook.props)
              THEN runEffect(runCleanup(hook), props) ELSE hook
     IN /\ Len(h.engines) <= MaxEngines
        /\ hook' = [h EXCEPT !.props = props]
  /\ emitted' = << >>
  /\ lastOp' = Op("render", "", 0, 0)
  /\ UNCHANGED engineSide

hookUnmount ==
  /\ hook.mounted
  /\ hook' = [runCleanup(hook) EXCEPT !.mounted = FALSE, !.unmounted = TRUE]
  /\ emitted' = << >>
  /\ lastOp' = Op("unmount", "", 0, 0)
  /\ UNCHANGED engineSide

\* the loads of engine k complete: the Promise.all continuation runs whether
\* or not the engine was disposed; the scene-graph engine starts its frame
\* loop, and onReady reaches the hook's setIsReady
hookEngineReady(k) ==
  /\ k \in 1..Len(hook.engines)
  /\ hook.engines[k].loading
  /\ hook' = [hook EXCEPT !.engines[k].loading = FALSE,
                          !.engines[k].looping = (hook.engines[k].mode = "webgl"),
                          !.isReady = TRUE]
  /\ emitted' = << Ev("onLoadComplete", NoInfo), Ev("onReady", NoInfo) >>
  /\ lastOp' = Op("loadComplete", "", k, 0)
  /\ UNCHANGED engineSide

HookNext ==
  \/ \E props \in HookProps : hookMount(props)
  \/ \E props \in HookProps : hookRender(props)
  \/ hookUnmount
  \/ \E k \in 1..MaxEngines : hookEngineReady(k)

HookSpec == InitFacade /\ [][HookNext]_vars

\* --- wiring and teardown: an engine constructed under every combination of
\* the navigation and responsive switches, its wired inputs, and dispose()
\* calls in which one release may throw
WireLen == 2         \* longest media list explored with the switches

AllFlags == [DOMAIN DefaultFlags -> BOOLEAN]

Faults ==
  {NoFault} \cup { [kind |-> "context", at |-> 0] }
    \cup [kind : {"material", "geometry", "texture"}, at : 1..WireLen]

InitWired ==
  \E mode \in {"css", "webgl"}, L \in 0..WireLen, f \in AllFlags :
    /\ FreshEngineWith(mode, L, f)
    /\ lastOp = Op("constructor", "", 0, 0)
    /\ config = [mergeConfig(defaultConfig, Basic(mode, L)) EXCEPT
                   !.navigation = [k \in DOMAIN @ |-> f[k]],
                   !.responsive = f.responsive]
    /\ built = "yes"
    /\ updates = 0
    /\ hook = NoHook

TeardownNext ==
  \/ cssDispose
  \/ \E fault \in Faults : glDisposeWith(fault)
  \/ \E key \in {"ArrowRight", "ArrowLeft"} : handleKeyDown(key)
  \/ \E clickX \in {1, 3} : pageClick(clickX)
  \/ \E direction \in {"prev", "next"} : arrowClick(direction)
  \/ \E t \in {<<1, -60, 0>>, <<1, 60, 0>>} : touchEnd(t[1], t[2], t[3])
  \/ \E q \in {1, 3} : onMouseDown(TRUE, q)
  \/ \E q \in {1, 3} : onTouchStart(1, TRUE, q)
  \/ FlipTimeout
  \/ TweenComplete
  \/ \E i \in 1..WireLen : LoadSuccess(i)
  \/ LoadComplete

TeardownSpec == InitWired /\ [][TeardownNext]_vars

\* --- callbacks that navigate: the handler the application passes as
\* onPageChange or onAnimationEnd calls nextPage() or prevPage() on the
\* flipbook while the completing step is still running
CallLen == 3         \* longest media list explored with navigating callbacks

Callbacks == {"onPageChange", "onAnimationEnd"}
Calls == {"nextPage", "prevPage"}

\* the events of a completing step whose callback `callback' made a call
\* that invoked the events `nested'
Announce(callback, info, nested) ==
  IF callback = "onPageChange"
  THEN << Ev("onPageChange", info) >> \o nested \o << Ev("onAnimationEnd", NoInfo) >>
  ELSE << Ev("onPageChange", info), Ev("onAnimationEnd", NoInfo) >> \o nested

\* the setTimeout callback of performFlipAnimation when the application's
\* handler calls goToNextSpread / goToPrevSpread through the facade:
\* isFlipping is already false when the handlers run
FlipTimeoutCalling(callback, call) ==
  /\ renderMode = "css"
  /\ Idle
  /\ timers # << >>
  /\ LET direction == Head(timers)
         cs == IF direction = "forward" THEN currentSpread + 1 ELSE currentSpread - 1
         starts == IF call = "nextPage" THEN cs < Len(spreads) - 1 ELSE cs > 0
         turn == IF call = "nextPage" THEN "forward" ELSE "back"
         left == IF flippingPages > 0 THEN flippingPages - 1 ELSE 0
     IN /\ currentSpread' = cs
        /\ rendered' = renderCurrentSpread(spreads, cs, rendered)
        /\ flippingPages' = IF starts THEN left + 1 ELSE left
        /\ isFlipping' = starts
        /\ flipDirection' = IF starts THEN turn ELSE "null"
        /\ timers' = IF starts THEN Append(Tail(timers), turn) ELSE Tail(timers)
        /\ emitted' = Announce(callback, cssPageInfo(cs, spreads),
                               IF starts THEN << Ev("onAnimationStart", NoInfo) >>
                               ELSE << >>)
        /\ promises' = << Settled(call, starts, FALSE) >>
  /\ lastOp' = Op("flipDone", callback, 0, 0)
  /\ walk' = Offtrack
  /\ UNCHANGED <<spreads, glVars, loadVars, cfgVars, lifeVars>>

\* the onComplete callback of the gsap timeline when the application's
\* handler calls nextPage() / prevPage(): isAnimating is already false when
\* the handlers run, and the mesh the finished flip held is hidden after them
TweenCompleteCalling(callback, call) ==
  /\ renderMode = "webgl"
  /\ Idle
  /\ tweens # << >>
  /\ LET forward == Head(tweens) = "forward"
         mesh == Head(currentPageMesh)
         cp == IF forward THEN currentPage + 1 ELSE currentPage - 1
         passes == IF call = "nextPage" THEN cp < pages - 1 ELSE cp > 0
         shown == IF call = "nextPage" THEN cp + 1 ELSE cp - 1
         threw == passes /\ IF call = "nextPage"
                            THEN ~(hasMesh(cp) /\ hasMesh(cp + 1))
                            ELSE ~hasMesh(cp - 1)
         starts == passes /\ ~threw
         rested == IF mesh = Null THEN turned
                   ELSE IF forward THEN turned \cup {mesh} ELSE turned \ {mesh - 1}
     IN /\ currentPage' = cp
        /\ isAnimating' = passes
        /\ visible' = (IF passes /\ hasMesh(shown) THEN visible \cup {shown}
                       ELSE visible) \ {mesh}
        /\ turned' = IF starts /\ call = "prevPage" THEN rested \cup {shown}
                     ELSE rested
        /\ tweens' = IF starts
                     THEN Append(Tail(tweens),
                                 IF call = "nextPage" THEN "forward" ELSE "back")
                     ELSE Tail(tweens)
        /\ currentPageMesh' = IF starts THEN Append(Tail(currentPageMesh), cp)
                              ELSE Tail(currentPageMesh)
        /\ emitted' = Announce(callback, glPageInfo(cp, pages),
                               IF passes THEN << Ev("onAnimationStart", NoInfo) >>
                               ELSE << >>)
        /\ promises' = << Settled(call, starts, threw) >>
  /\ lastOp' = Op("flipDone", callback, 0, 0)
  /\ UNCHANGED <<pages, uTexture, cssVars, loadVars, cfgVars, lifeVars, walk>>

InitCalling == \E mode \in {"css", "webgl"}, L \in 0..CallLen : Construct(mode, L)

CallingNext ==
  \/ cssNextPage
  \/ cssPrevPage
  \/ glNextPage
  \/ glPrevPage
  \/ FlipTimeout
  \/ TweenComplete
  \/ \E callback \in Callbacks, call \in Calls : FlipTimeoutCalling(callback, call)
  \/ \E callback \in Callbacks, call \in Calls : TweenCompleteCalling(callback, call)
  \/ PromiseSettles
  \/ \E i \in 1..CallLen : LoadSuccess(i)
  \/ LoadComplete

CallingSpec == InitCalling /\ [][CallingNext]_vars

\* =================================================================== claims
\* the committed position and the number of positions of the live engine
position == IF renderMode = "css" THEN currentSpread ELSE currentPage
positions == IF renderMode = "css" THEN Len(spreads) ELSE pages

\* flips whose completion callback is still pending
inFlight == Len(timers) + Len(tweens)

NavOps == {"nextPage", "prevPage", "keydown", "click", "arrow", "touchend",
           "mousedown", "touchstart"}

CountEv(es, name) == Cardinality({k \in DOMAIN es : es[k].ev = name})

\* the API call of this step returned a promise that was not rejected
NotThrown == promises' # << >> /\ ~promises'[Len(promises')].rejected

C2_IndexInRange ==
  (phase = "ready" /\ Len(images) >= 1)
    => (getCurrentPage.index >= 0 /\ getCurrentPage.index <= getCurrentPage.total - 1)

\* C3: goToPage called while a flip is in progress leaves the position
\* unchanged and emits no onPageChange.
C3_GoToPageOnlyWhenReady ==
  [][ (lastOp'.op = "goToPage" /\ getIsAnimating)
        => (position' = position /\ emitted' = << >>) ]_vars

\* C4: from the start of a flip until its completion callback runs,
\* getCurrentPage() returns the PageInfo held before the flip started; the
\* completion step delivers the new PageInfo in its onPageChange.
C4_CommittedStateOnly ==
  [][ /\ (inFlight = 1 /\ inFlight' >= 1) => getCurrentPage' = getCurrentPage
      /\ (lastOp'.op = "flipDone" /\ inFlight' < inFlight)
           => emitted'[1] = Ev("onPageChange", getCurrentPage')
    ]_vars

\* C5: nextPage at the last position and prevPage at the first position do
\* not throw, leave position and isAnimating() unchanged, create no transient
\* element, timer or tween, and emit no event.
C5_EdgeNoop ==
  [][ ( \/ (lastOp'.op = "nextPage" /\ position = positions - 1)
        \/ (lastOp'.op = "prevPage" /\ position = 0) )
        => /\ NotThrown
           /\ position' = position
           /\ getIsAnimating' = getIsAnimating
           /\ flippingPages' = flippingPages
           /\ timers' = timers
           /\ tweens' = tweens
           /\ emitted' = << >>
    ]_vars

\* nextPage() was called at the back cover of a book with several positions
C5_Witness ==
  /\ lastOp.op = "nextPage"
  /\ positions >= 2
  /\ position = positions - 1
  /\ ~getIsAnimating
  /\ inFlight = 0
  /\ emitted = << >>

\* the position goToPage(index) asks for: the spread holding page `index'
\* in the layered engine, the page itself in the scene-graph engine
targetOf(index) == IF renderMode = "css" THEN index \div 2 ELSE index

\* C6: goToPage with a negative index, an index beyond the last page, or an
\* index that maps to the current position does not throw, leaves
\* getCurrentPage() unchanged and emits nothing; with a one-item list
\* goToPage(1) leaves the index at 0.
C6_InvalidGoToPageNoop ==
  [][ ( /\ lastOp'.op = "goToPage"
        /\ \/ lastOp'.x < 0
           \/ lastOp'.x >= getCurrentPage.total
           \/ targetOf(lastOp'.x) = position )
        => /\ NotThrown
           /\ getCurrentPage' = getCurrentPage
           /\ emitted' = << >>
    ]_vars

\* goToPage(1) on a one-item book left the index at 0
C6_Witness ==
  /\ lastOp.op = "goToPage"
  /\ lastOp.x = 1
  /\ Len(images) = 1
  /\ phase = "ready"
  /\ getCurrentPage.index = 0
  /\ emitted = << >>

\* C7: when the promise returned by nextPage()/prevPage() resolves after
\* having started a transition, isAnimating() is false.
C7_ResolvesAfterTransition ==
  (lastOp.op = "settled" /\ lastOp.key \in {"nextPage", "prevPage"} /\ lastOp.x = 1)
    => ~getIsAnimating

\* C8: the step that starts a flip emits exactly onAnimationStart; the step
\* that completes it emits exactly onPageChange, carrying the PageInfo of the
\* newly committed position, followed by onAnimationEnd; no step in between
\* emits onAnimationStart or onAnimationEnd.
C8_FlipEventOrder ==
  [][ /\ (inFlight' > inFlight)
           => emitted' = << Ev("onAnimationStart", NoInfo) >>
      /\ (inFlight' < inFlight)
           => emitted' = << Ev("onPageChange", getCurrentPage'),
                            Ev("onAnimationEnd", NoInfo) >>
      /\ (inFlight = 1 /\ inFlight' = 1)
           => /\ CountEv(emitted', "onAnimationStart") = 0
              /\ CountEv(emitted', "onAnimationEnd") = 0
    ]_vars

\* a flip has just completed on a position other than the first
C8_Witness ==
  /\ lastOp.op = "flipDone"
  /\ position >= 1
  /\ emitted = << Ev("onPageChange", getCurrentPage), Ev("onAnimationEnd", NoInfo) >>

\* C9: a goToPage call that changes the position commits the requested
\* position in the same step, emits exactly one onPageChange carrying it and
\* nothing else, starts no flip and leaves isAnimating() as it was.
C9_JumpNotAnimated ==
  [][ (lastOp'.op = "goToPage" /\ getCurrentPage' # getCurrentPage)
        => /\ position' = targetOf(lastOp'.x)
           /\ emitted' = << Ev("onPageChange", getCurrentPage') >>
           /\ getIsAnimating' = getIsAnimating
           /\ inFlight' = inFlight
           /\ flippingPages' = flippingPages
    ]_vars

\* a jump from the front cover has just been committed on an idle engine
C9_Witness ==
  /\ lastOp.op = "goToPage"
  /\ position = targetOf(lastOp.x)
  /\ position >= 1
  /\ ~getIsAnimating
  /\ emitted = << Ev("onPageChange", getCurrentPage) >>

\* C10: a list of length L paginates into L spreads when L <= 1 and into
\* ceil((L-2)/2) + 2 spreads when L >= 2; spread 0 is the front cover with
\* item 0 in the right slot only and, when L >= 2, the last spread is the
\* back cover with item L-1 in the left slot only.
C10_SpreadCount ==
  renderMode = "css" =>
    LET L == Len(images) IN
      /\ (L <= 1 => Len(spreads) = L)
      /\ (L >= 2 => Len(spreads) = ((L - 2) + 1) \div 2 + 2)
      /\ (L >= 1 => /\ spreads[1].isCover /\ ~spreads[1].isBack
                     /\ spreads[1].right = images[1]
                     /\ spreads[1].left = Null)
      /\ (L >= 2 => LET last == spreads[Len(spreads)] IN
                       /\ last.isBack /\ ~last.isCover
                       /\ last.left = images[L]
                       /\ last.right = Null)

\* a three-item list paginated into cover, one interior spread, back cover
C10_Witness ==
  /\ renderMode = "css"
  /\ Len(images) = 3
  /\ Len(spreads) = 3
  /\ spreads[3].isBack

\* the slots <<spread, side>> of the spread list that hold a given item
SlotsOf(item) ==
  { s \in (1..Len(spreads)) \X {"left", "right"} :
      IF s[2] = "left" THEN spreads[s[1]].left = item
      ELSE spreads[s[1]].right = item }

\* C11: for every L >= 2 every media item occupies exactly one slot across
\* all spreads: the interior spreads take items 1,2 then 3,4, ... in order,
\* an unpaired trailing interior item sits alone in the right slot, and the
\* back-cover item L-1 appears in the terminal back-cover spread only.
C11_EachItemOneSlot ==
  (renderMode = "css" /\ Len(images) >= 2) =>
    /\ \A n \in allItems : Cardinality(SlotsOf(images[n])) = 1
    /\ SlotsOf(images[Len(images)]) = { <<Len(spreads), "left">> }

Min(a, b) == IF a <= b THEN a ELSE b

C13_LoadOutcomeOnce ==
  /\ phase = "loading" =>
       fired = [onLoadComplete |-> 0, onReady |-> 0, onError |-> 0]
  /\ phase = "ready" =>
       /\ fired = [onLoadComplete |-> 1, onReady |-> 1, onError |-> 0]
       /\ failedLoads = {} /\ pendingLoads = {}
  /\ phase = "failed" =>
       /\ fired = [onLoadComplete |-> 0, onReady |-> 0, onError |-> 1]
       /\ failedLoads # {}
  /\ (failedLoads = {} /\ pendingLoads = {}) =>
       (phase = "ready" \/ (phase = "loading" /\ ENABLED LoadComplete))
  /\ failedLoads # {} =>
       (phase = "failed" \/ (phase = "loading" /\ ENABLED LoadRejected))

\* one of three items failed and the other two decoded, in some order
C13_Witness ==
  /\ Len(images) = 3
  /\ Cardinality(failedLoads) = 1
  /\ pendingLoads = {}
  /\ phase = "failed"
  /\ fired.onError = 1
  /\ fired.onReady = 0

ApiOps == {"nextPage", "prevPage", "goToPage"}

\* C14: an engine accepts navigation only once it is Ready: while media items
\* are still loading, and forever after a load failure, nextPage, prevPage
\* and goToPage commit no position change and emit no onAnimationStart or
\* onPageChange, in both backends.
C14_NavigationOnlyWhenReady ==
  [][ (lastOp'.op \in ApiOps /\ phase # "ready")
        => /\ position' = position
           /\ CountEv(emitted', "onAnimationStart") = 0
           /\ CountEv(emitted', "onPageChange") = 0
    ]_vars

\* the items whose load has succeeded
decoded == allItems \ (pendingLoads \cup failedLoads)

\* C15: while N items load, each successful load emits one onLoadProgress
\* whose loaded field is the number of items loaded so far, so that loaded
\* takes the values 1, 2, ..., N in that order with total = N, for every
\* completion order, in both backends.
C15_ProgressCountsLoaded ==
  [][ (lastOp'.op = "loadSuccess" /\ failedLoads = {})
        => emitted' = << Ev("onLoadProgress",
                            Progress(Cardinality(decoded'), Len(images))) >>
    ]_vars

\* C16: getLoadingProgress().loaded is the number of media items that have
\* finished loading (so it never decreases and reads 2 when one of three
\* items has failed and the other two have loaded), and it equals total once
\* onLoadComplete has fired.
C16_LoadedCountsFinished ==
  /\ getLoadingProgress.loaded = Cardinality(decoded)
  /\ fired.onLoadComplete > 0 => getLoadingProgress.loaded = getLoadingProgress.total

LoadEvents == {"onLoadProgress", "onLoadComplete", "onReady", "onError"}

\* C17: once the load coordinator has rejected (onError delivered), the later
\* completion or failure of sibling loads is ignored: no further
\* onLoadProgress, onLoadComplete, onReady or onError is emitted and the
\* loaded count no longer changes.
C17_RejectedIgnoresSiblings ==
  [][ phase = "failed"
        => /\ \A k \in DOMAIN emitted' : emitted'[k].ev \notin LoadEvents
           /\ renderMode = "css" => Cardinality(loadedImages') = Cardinality(loadedImages)
    ]_vars

\* C18: destroy() is idempotent: across any number of consecutive destroy()
\* calls none throws (dispose has no throwing path in either engine), and
\* every texture, material, geometry, rendering context and DOM node owned
\* by the engine is released or detached at most once in total.
C18_DestroyIdempotent ==
  /\ \A i \in allItems : /\ released.texture[i] <= 1
                         /\ released.material[i] <= 1
                         /\ released.geometry[i] <= 1
  /\ released.context <= 1
  /\ released.node <= 1

\* C19: every decoded resource an engine instance ever acquires is released
\* by disposal: once destroy() has been called no texture of that instance
\* remains unreleased, including textures whose decode finishes only after
\* destroy() was called while loading was still in progress.
C19_TexturesReleased ==
  (renderMode = "webgl" /\ destroyCalls > 0) =>
    \A i \in decoded : released.texture[i] >= 1

CallbackOps == {"flipDone", "loadSuccess", "loadFailure", "loadComplete", "loadRejected"}

\* C20: disposal invalidates all outstanding callbacks: after destroy() has
\* returned, no pending flip timer, tween completion or media-load completion
\* of that instance mutates its position or animation state or emits any
\* event callback.
C20_DisposalDropsCallbacks ==
  [][ (destroyCalls > 0 /\ lastOp'.op \in CallbackOps)
        => /\ position' = position
           /\ getIsAnimating' = getIsAnimating
           /\ emitted' = << >>
    ]_vars

\* everything a navigation call could change in the engine
engineState ==
  <<currentSpread, isFlipping, flipDirection, flippingPages, rendered, timers,
    pages, currentPage, isAnimating, tweens>>

\* C21: Disposed is terminal: after destroy(), every nextPage, prevPage and
\* goToPage call on that instance changes no state, starts no flip
\* (isAnimating() stays false) and emits no event, whatever position the
\* engine held when it was destroyed.
C21_DisposedIsTerminal ==
  [][ (destroyCalls > 0 /\ lastOp'.op \in ApiOps)
        => /\ engineState' = engineState
           /\ emitted' = << >>
    ]_vars

\* what the caller left out of the configuration
NoTarget(user) == ~Has(user, "container")
NoMedia(user) == ~Has(user, "media") \/ ~Has(user.media, "src")

\* C22: constructing a flipbook with no mount target or with no media fails
\* synchronously with an error, before any backend engine is constructed,
\* before any node is attached to a mount point, and before any load is
\* started or any callback is emitted.
C22_InvalidConfigThrowsFirst ==
  [][ \A user \in UserConfigs, webglSupported \in BOOLEAN :
        (FlipbookConstructor(user, webglSupported) /\ (NoTarget(user) \/ NoMedia(user)))
          => /\ built' = "threw"
             /\ lastOp'.key \in {"Container element is required",
                                 "Media source is required"}
             /\ renderMode' = "none"
             /\ ~mounted' /\ ~listening'
             /\ pendingLoads' = {}
             /\ emitted' = << >>
             /\ fired' = [onLoadComplete |-> 0, onReady |-> 0, onError |-> 0]
    ]_vars

C22_Witness ==
  /\ built = "threw"
  /\ lastOp = Op("constructor", "Media source is required", 0, 0)
  /\ renderMode = "none" /\ ~mounted /\ pendingLoads = {}

\* the caller asks for the scene-graph backend and the configuration is valid
Wants3D(user) ==
  /\ ~NoTarget(user) /\ ~NoMedia(user) /\ user.container # NoMatch
  /\ Has(user, "renderMode") /\ user.renderMode = "webgl"

\* C23: when the 3D backend is requested but the 3D capability is
\* unavailable, construction does not throw and does not emit onError;
\* exactly one layered engine is constructed, the resolved render mode reads
\* as the layered mode, and the instance is left in exactly the state of an
\* instance configured for the layered backend from the start, so that every
\* subsequent getCurrentPage()/nextPage() behaves the same.
C23_FallbackIsLayered ==
  [][ \A user \in UserConfigs :
        (FlipbookConstructor(user, FALSE) /\ Wants3D(user))
          => /\ built' = "yes"
             /\ emitted' = << >>
             /\ fired'.onError = 0
             /\ FreshEngine("css", Len(srcOf(user)))'
             /\ config' = mergeConfig(defaultConfig, [user EXCEPT !.renderMode = "css"])
             /\ config'.renderMode = "css"
             /\ getCurrentPage' = cssPageInfo(0, createSpreads(srcOf(user)))
    ]_vars

C23_Witness ==
  /\ lastOp = Op("constructor", "", 1, 0)
  /\ built = "yes"
  /\ renderMode = "css" /\ config.renderMode = "css"
  /\ Len(spreads) = 1 /\ mounted

\* the loading progress the backend itself holds and reports in onLoadProgress
engineLoadingProgress == Progress(Cardinality(loadedImages), Len(images))

\* C24: the facade constructs exactly one backend and is a transparent proxy
\* for it: at every point of any call sequence each of nextPage, prevPage,
\* goToPage, getCurrentPage, isAnimating, getLoadingProgress, resize and
\* destroy on the facade has the same effect and returns the same result as
\* on the backend; for getLoadingProgress, the backend's own loaded / total.
C24_FacadeIsTransparent ==
  built = "yes" =>
    /\ renderMode \in {"css", "webgl"}
    /\ getCurrentPage = IF renderMode = "css" THEN cssPageInfo(currentSpread, spreads)
                        ELSE glPageInfo(currentPage, pages)
    /\ getLoadingProgress.loaded = engineLoadingProgress.loaded
    /\ getLoadingProgress.total = engineLoadingProgress.total

\* C25: updateConfig with a changed media list or a changed render mode
\* fully destroys the current backend and then constructs a new one from the
\* merged configuration, so that afterwards the live backend's type matches
\* getConfig().renderMode and its pagination matches getConfig().media.
C25_UpdateRebuildsBackend ==
  built = "yes" =>
    /\ renderMode = getConfig.renderMode
    /\ images = srcOf(getConfig)
    /\ renderMode = "css" => spreads = createSpreads(srcOf(getConfig))

\* what the other backend reports at its first position for the same media list
otherBackendAtStart ==
  IF renderMode = "css" THEN glPageInfo(0, Len(images))
  ELSE cssPageInfo(0, createSpreads(images))

\* C26: the two backends expose the same page/spread semantics: for the same
\* media list and the same sequence of completed nextPage, prevPage and
\* goToPage calls they report the same PageInfo (index, total, spread,
\* totalSpreads); in particular a ready engine resting at its first position
\* reports what the other backend reports there.
C26_BackendsAgree ==
  (phase = "ready" /\ position = 0 /\ inFlight = 0)
    => getCurrentPage = otherBackendAtStart

\* `out' holds, for every field of group `mine' or `theirs', their value when
\* they supplied the field and mine otherwise
FieldByField(mine, theirs, out, skip) ==
  \A f \in (DOMAIN mine \cup DOMAIN theirs) \ skip :
    /\ Has(out, f)
    /\ out[f] = IF Has(theirs, f) THEN theirs[f] ELSE mine[f]

DeepMerged(base, user, out) ==
  /\ \A g \in {"animation", "navigation", "loading", "theme"} : Has(out, g)
  /\ \A g \in {"animation", "navigation", "loading"} :
       FieldByField(Group(base, g), Group(user, g), out[g], {})
  /\ FieldByField(Group(base, "theme"), Group(user, "theme"), out.theme,
                  {"pageShadow", "spine"})
  /\ \A s \in {"pageShadow", "spine"} :
       /\ Has(out.theme, s)
       /\ FieldByField(Group(Group(base, "theme"), s), Group(Group(user, "theme"), s),
                       out.theme[s], {})

\* C27: configuration resolution deep-merges nested groups field by field,
\* both at construction and in updateConfig: for every subset of fields
\* supplied in animation, navigation, theme, theme.pageShadow, theme.spine
\* or loading, each supplied field takes the user's value and every
\* unsupplied sibling field keeps its default (or previously resolved) value.
C27_DeepMergeKeepsSiblings ==
  [][ /\ \A user \in UserConfigs, webglSupported \in BOOLEAN :
           (FlipbookConstructor(user, webglSupported) /\ built' = "yes")
             => DeepMerged(defaultConfig, user, config')
      /\ \A newConfig \in Partials :
           updateConfig(newConfig) => DeepMerged(config, newConfig, config')
    ]_vars

C27_Witness ==
  /\ lastOp.op = "updateConfig"
  /\ config.animation = [duration |-> 300, easing |-> "ease-in-out", physics |-> TRUE]
  /\ config.theme.pageShadow = [enabled |-> FALSE, color |-> "rgba(0, 0, 0, 0.3)",
                                blur |-> 20, offset |-> 0]
  /\ config.theme.spine = defaultConfig.theme.spine

\* the resolved initialPage is a page of the media list
initialPageInRange == config.initialPage >= 0 /\ config.initialPage < Len(images)

\* C28: the configured initialPage (default 0) is the page the flipbook
\* starts on: once the engine is ready and before any navigation,
\* getCurrentPage().index equals the resolved initialPage whenever that index
\* is in range.
C28_StartsOnInitialPage ==
  (built = "yes" /\ phase = "ready" /\ initialPageInRange)
    => getCurrentPage.index = config.initialPage

\* engine k of the hook still holds something: its node in the container, a
\* scheduled frame, or a pending load continuation
alive(k) ==
  hook.engines[k].attached \/ hook.engines[k].looping \/ hook.engines[k].loading

\* C29: under any sequence of mount, enable/disable, media-source change,
\* render-mode change and unmount of the React hook, the previous engine is
\* fully destroyed before the next one is constructed, so at most one
\* non-destroyed engine is ever attached to the hook's container: every
\* engine but the current one has been destroyed and holds nothing any more.
C29_OneLiveEngine ==
  /\ Cardinality({k \in 1..Len(hook.engines) :
                    hook.engines[k].attached /\ hook.engines[k].disposed = 0}) <= 1
  /\ \A k \in 1..Len(hook.engines) :
       k # hook.ref => hook.engines[k].disposed = 1 /\ ~alive(k)

\* the container alone: at most one engine's node is in it, and it is the
\* current engine's
HookContainerHeldByOne ==
  /\ Cardinality({k \in 1..Len(hook.engines) : hook.engines[k].attached}) <= 1
  /\ \A k \in 1..Len(hook.engines) :
       k # hook.ref => hook.engines[k].disposed = 1 /\ ~hook.engines[k].attached

\* what a request in one direction does in the layered engine, under the
\* guard nextPage() / prevPage() apply: a flip starts when none is in flight
\* and the neighbouring spread exists, and nothing happens otherwise
requests(direction) ==
  LET inRange == IF direction = "forward" THEN currentSpread < Len(spreads) - 1
                 ELSE currentSpread > 0
  IN IF ~isFlipping /\ inRange
     THEN /\ isFlipping' /\ flipDirection' = direction
          /\ timers' = Append(timers, direction)
          /\ emitted' = << Ev("onAnimationStart", NoInfo) >>
          /\ currentSpread' = currentSpread
     ELSE emitted' = << >> /\ UNCHANGED cssVars

requestsNothing == emitted' = << >> /\ UNCHANGED cssVars

\* C30: the layered engine maps inputs to directions as follows, each
\* subject to the same guard as the API calls: ArrowLeft requests prev and
\* ArrowRight requests next; a click in the left half of a page requests
\* prev and in the right half next; a swipe whose horizontal distance exceeds
\* the minimum (50) and exceeds its vertical distance requests prev when
\* dragged right and next when dragged left, and any other swipe requests
\* nothing.
C30_InputDirections ==
  [][ /\ lastOp'.op = "keydown" =>
           IF lastOp'.key = "ArrowRight" THEN requests("forward")
           ELSE IF lastOp'.key = "ArrowLeft" THEN requests("back")
           ELSE requestsNothing
      /\ lastOp'.op = "click" =>
           IF lastOp'.x * 2 < PageWidth THEN requests("back") ELSE requests("forward")
      /\ lastOp'.op = "touchend" =>
           IF lastOp'.key = "one" /\ Abs(lastOp'.x) > 50 /\ Abs(lastOp'.x) > Abs(lastOp'.y)
           THEN IF lastOp'.x > 0 THEN requests("back") ELSE requests("forward")
           ELSE requestsNothing
      /\ (lastOp'.op = "nextPage" /\ renderMode = "css") => requests("forward")
      /\ (lastOp'.op = "prevPage" /\ renderMode = "css") => requests("back")
    ]_vars

C30_Witness ==
  /\ lastOp.op = "touchend" /\ lastOp.key = "one" /\ lastOp.x < -50
  /\ isFlipping /\ flipDirection = "forward" /\ timers = << "forward" >>
  /\ currentSpread = 1

\* C31: after dispose() of the scene-graph engine the render loop is stopped
\* for good: no further frame is scheduled or rendered by that instance,
\* including when dispose() is called before texture loading has finished.
C31_LoopStoppedForGood ==
  (renderMode = "webgl" /\ destroyCalls > 0) => ~looping

\* the release that threw in this dispose() step is resource `kind' of page i
faulted(kind, i) == lastOp'.key = kind /\ lastOp'.x = i

\* what best-effort disposal leaves behind after this dispose() step
carriedOut ==
  /\ destroyCalls' = destroyCalls + 1
  /\ ~mounted'
  /\ subs' \cap glOwned = {}
  /\ ~faulted("context", 0) => released'.context > released.context
  /\ \A i \in 1..pages :
       /\ ~faulted("texture", i) => released'.texture[i] > released.texture[i]
       /\ ~faulted("material", i) => released'.material[i] > released.material[i]
       /\ ~faulted("geometry", i) => released'.geometry[i] > released.geometry[i]

\* C32: scene-graph disposal is best-effort: when releasing any one resource
\* (a page's material or geometry, a texture, or the rendering context)
\* throws, the failure is caught, is never rethrown to the caller of
\* destroy(), and every other release step, including detaching the
\* rendering surface and deregistering the event subscriptions, is still
\* carried out.
C32_BestEffortDisposal ==
  [][ (lastOp'.op = "destroy" /\ renderMode = "webgl") => carriedOut ]_vars

\* the same for the dispose() calls in which nothing throws
DisposalWithoutFault ==
  [][ (lastOp'.op = "destroy" /\ lastOp'.key = "" /\ renderMode = "webgl")
        => carriedOut ]_vars

IsPrefix(s, t) == Len(s) <= Len(t) /\ SubSeq(t, 1, Len(s)) = s

\* C33: scene-graph disposal performs its steps in this order: stop the
\* render loop, then release every page's geometry, material and texture,
\* then force the rendering context to release its native resources, then
\* detach the rendering surface from the mount point, then deregister all
\* event subscriptions; a call cut short by a throw has performed a prefix.
C33_DisposalOrder ==
  [][ (lastOp'.op = "destroy" /\ renderMode = "webgl")
        => /\ IsPrefix(teardown', << "loop", "pages", "textures", "context",
                                    "detach", "unsubscribe" >>)
           /\ lastOp'.key # "context" => Len(teardown') = 6
           /\ ~looping'
    ]_vars

C33_Witness ==
  /\ renderMode = "webgl" /\ lastOp.op = "destroy" /\ lastOp.key = ""
  /\ teardown = << "loop", "pages", "textures", "context", "detach", "unsubscribe" >>
  /\ Len(images) = 2 /\ released.geometry[2] = 1 /\ released.context = 1
  /\ ~mounted /\ ~looping

\* the subscriptions an engine places on the window
WindowLevel == {"window.keydown", "window.resize"}

\* what dispose() of the layered engine has to leave behind
cssTornDown ==
  /\ subs \cap WindowLevel = {}
  /\ ~mounted
  /\ spreads = << >>
  /\ loadedImages = {}

\* C34: after dispose() of the layered engine, for every combination of
\* navigation and responsive flags, no window-level subscription registered
\* by that instance remains registered, the mount point contains no node
\* created by the engine, and the engine's spread and loaded-item
\* collections are empty.
C34_LayeredTornDown ==
  (renderMode = "css" /\ destroyCalls > 0) => cssTornDown

\* the same at the moment dispose() returns
LayeredTornDownAtReturn ==
  [][ (lastOp'.op = "destroy" /\ renderMode = "css") => cssTornDown' ]_vars

\* C35: a flip always runs to completion: once nextPage/prevPage has started
\* a flip, isAnimating() eventually becomes false again with the new position
\* committed, and no call other than disposal can cancel the flip or leave
\* the engine stuck in Flipping, that is, animating with no completion
\* callback pending.
C35_FlipRunsToCompletion ==
  getIsAnimating => inFlight > 0

\* C36: in the scene-graph engine, whenever it is Ready with no flip in
\* progress, exactly one page mesh is visible, it is the mesh at the current
\* page index, and it rests at rotation 0, after any sequence of nextPage,
\* prevPage and goToPage calls.
C36_OnePageShownAtRest ==
  (renderMode = "webgl" /\ phase = "ready" /\ destroyCalls = 0 /\ pages > 0
     /\ ~isAnimating)
     => visible = {currentPage} /\ currentPage \notin turned

\* the switch an input source or subscription belongs to
switchOf(source) ==
  CASE source = "window.keydown" -> "keyboard"
    [] source \in {"page.click", "container.mousedown", "container.mousemove"}
         -> "click"
    [] source = "button.click" -> "arrows"
    [] source \in {"root.touchstart", "root.touchend", "container.touchstart",
                   "container.touchmove"} -> "touch"
    [] source = "window.resize" -> "responsive"

\* the sources a backend supports: those it wires with every switch on
supported(mode) == wired(mode, DefaultFlags)

\* C37: the navigation flags keyboard, touch, click, arrows and pageIndicator
\* (and the responsive flag) are independently togglable: in each backend an
\* input source or subscription the backend supports is wired if and only if
\* its own flag is enabled, whatever the values of the other flags.
C37_FlagsIndependent ==
  destroyCalls = 0 =>
    \A source \in supported(renderMode) :
       source \in subs <=> flags[switchOf(source)]

\* the layered engine wires each source under its own switch
LayeredFlagsIndependent ==
  (destroyCalls = 0 /\ renderMode = "css") =>
    \A source \in supported("css") : source \in subs <=> flags[switchOf(source)]

\* C38: the React hook's state reflects only the live engine: after the
\* engine has been replaced or destroyed, late events from the old engine
\* never change isReady, currentPage, isAnimating or loadingProgress; in
\* particular isReady is true only if the current engine has emitted onReady.
C38_ReadyOnlyFromLiveEngine ==
  (hook.mounted /\ hook.isReady)
     => hook.ref # 0 /\ ~hook.engines[hook.ref].loading

\* a flip has been announced by onAnimationStart and not yet closed by
\* onAnimationEnd
flipOpen == getIsAnimating \/ inFlight > 0

\* the names of the animation events among `es', in order
RECURSIVE animationEvents(_)
animationEvents(es) ==
  IF es = << >> THEN << >>
  ELSE (IF Head(es).ev \in {"onAnimationStart", "onAnimationEnd"}
        THEN << Head(es).ev >> ELSE << >>) \o animationEvents(Tail(es))

\* `names' continues an alternating sequence whose last event left a flip
\* open or not
RECURSIVE alternates(_, _)
alternates(open, names) ==
  IF names = << >> THEN TRUE
  ELSE /\ Head(names) = (IF open THEN "onAnimationEnd" ELSE "onAnimationStart")
       /\ alternates(~open, Tail(names))

\* onAnimationEnd is the last handler the step invoked
endsStep(es) == es # << >> /\ es[Len(es)].ev = "onAnimationEnd"

\* C39: per engine instance onAnimationStart and onAnimationEnd strictly
\* alternate, beginning with onAnimationStart, and isAnimating() is false
\* whenever onAnimationEnd is delivered, even when a navigation call is made
\* from inside an onPageChange or onAnimationEnd callback.
C39_StartEndAlternate ==
  [][ /\ alternates(flipOpen, animationEvents(emitted'))
      /\ endsStep(emitted') => ~getIsAnimating'
    ]_vars

\* the same holds as long as no handler navigates
AlternateWithoutNavigatingCallbacks ==
  [][ lastOp'.key \notin Callbacks =>
        /\ alternates(flipOpen, animationEvents(emitted'))
        /\ endsStep(emitted') => ~getIsAnimating'
    ]_vars

\* C40: page order is independent of load completion order: for every order
\* in which the N concurrent loads complete, once the engine is Ready page i
\* of the scene-graph engine shows media item i, and the layered engine's
\* spreads reference the items in the order of the media list.
C40_PageOrderIsListOrder ==
  destroyCalls = 0 =>
    /\ (renderMode = "webgl" /\ pendingLoads = {} /\ failedLoads = {})
          => resolved = images
    /\ phase = "ready" =>
          IF renderMode = "webgl"
          THEN /\ pages = Len(images)
               /\ \A i \in 1..Len(images) :
                     Has(uTexture, i) /\ uTexture[i] = images[i]
          ELSE spreads = createSpreads(images)

\* the three loads of a scene-graph engine have completed, the first item's
\* last, and the collected textures are in list order
C40_Witness ==
  /\ renderMode = "webgl" /\ destroyCalls = 0
  /\ Len(images) = 3 /\ pendingLoads = {} /\ failedLoads = {}
  /\ lastOp.op = "loadSuccess" /\ lastOp.x = 1
  /\ resolved = images

====
